---- MODULE Spec2Model ----
(***************************************************************************)
(* Model of class Trie of src/src/trie_autosuggest.cpp: the node heap, the *)
(* word counter and the three public operations insert, getSuggestions and *)
(* getWordCount, with the private helpers they call.                       *)
(*                                                                         *)
(* A string is a sequence of character codes (ASCII). Input texts are all  *)
(* strings over Alphabet up to MaxLen characters; the alphabet holds one   *)
(* whitespace character, one character that is neither a letter nor        *)
(* whitespace, one upper-case letter and one lower-case letter, so that    *)
(* trim, tolower and isalpha each have a case where they act and a case    *)
(* where they do not. All inputs are ASCII, where tolower and isalpha are  *)
(* defined ("C" locale; the program never calls setlocale).                *)
(***************************************************************************)
EXTENDS Integers, Sequences, FiniteSets, TLC

VARIABLES
  root,       \* Trie::root, the node allocated by the constructor
  nodes,      \* the heap of TrieNode objects: node id -> [children, isEndOfWord]
  wordCount,  \* Trie::wordCount
  call,       \* the last completed call of a public method: its name, argument, return value
  dict,       \* which texts the caller draws from
  inserted,   \* history: the texts passed to insert so far (SpecHist only)
  seen        \* history: the last insert's normalised word had been passed before (SpecHist only)

vars == <<root, nodes, wordCount, call, dict, inserted, seen>>
hist == <<dict, inserted, seen>>

\* ---------------------------------------------------------------- bounds
MaxLen == 3       \* longest text passed to insert or getSuggestions under Spec
MaxWords == 2     \* Spec: insert is called while wordCount < MaxWords
MaxHistLen == 2   \* longest text under SpecHist
MaxInserts == 2   \* SpecHist: number of distinct texts passed to insert

\* ' ', '1', 'A', 'b'
Alphabet == {32, 49, 65, 98}

TextsUpTo(n) == UNION {[1..k -> Alphabet] : k \in 0..n}
Texts == TextsUpTo(MaxLen)
HistTexts == TextsUpTo(MaxHistLen)

\* The scenario of the specification: apple, app, apply, apricot, banana are
\* inserted, and ap, b, z are queried.
ScenarioWords ==
  { <<97, 112, 112, 108, 101>>, <<97, 112, 112>>, <<97, 112, 112, 108, 121>>,
    <<97, 112, 114, 105, 99, 111, 116>>, <<98, 97, 110, 97, 110, 97>> }
ScenarioPrefixes == { <<97, 112>>, <<98>>, <<122>> }

\* the texts passed to insert and the prefixes queried, by dictionary
Words(d) ==
  IF d = "scenario" THEN ScenarioWords ELSE IF d = "hist" THEN HistTexts ELSE Texts
Prefixes(d) ==
  IF d = "scenario" THEN ScenarioPrefixes ELSE IF d = "hist" THEN HistTexts ELSE Texts

\* The iteration order of an unordered_map is unspecified: a traversal visits
\* the keys of a node by ascending or by descending code (all the orders there
\* are for a node with at most two keys).
BucketOrders == {"asc", "desc"}

\* ---------------------------------------------------------------- characters and strings
NULL == -1
npos == 0

\* the set of characters trim strips
Whitespace == {32, 9, 10, 13}

isalpha(ch) == ch \in 65..90 \/ ch \in 97..122

tolower(ch) == IF ch \in 65..90 THEN ch + 32 ELSE ch

toLower(str) == [i \in 1..Len(str) |-> tolower(str[i])]

find_first_not_of(str, set) ==
  LET hits == {i \in 1..Len(str) : str[i] \notin set}
  IN IF hits = {} THEN npos ELSE CHOOSE i \in hits : \A j \in hits : i <= j

find_last_not_of(str, set) ==
  LET hits == {i \in 1..Len(str) : str[i] \notin set}
  IN IF hits = {} THEN npos ELSE CHOOSE i \in hits : \A j \in hits : i >= j

trim(str) ==
  LET first == find_first_not_of(str, Whitespace)
  IN IF first = npos THEN <<>>
     ELSE SubSeq(str, first, find_last_not_of(str, Whitespace))

\* std::string operator<: lexicographic, a proper prefix is smaller
StrLess(a, b) ==
  \E k \in 1..(Len(a) + 1) :
    /\ \A j \in 1..(k - 1) : j <= Len(b) /\ a[j] = b[j]
    /\ k <= Len(b)
    /\ (k > Len(a) \/ a[k] < b[k])

RemoveAt(s, i) == SubSeq(s, 1, i - 1) \o SubSeq(s, i + 1, Len(s))

\* sort left out: the vector as collected
sort_unsorted(results) == results

RECURSIVE sort(_)
sort(results) ==
  IF results = <<>> THEN <<>>
  ELSE LET i == CHOOSE i \in 1..Len(results) :
                  \A j \in 1..Len(results) : ~StrLess(results[j], results[i])
       IN <<results[i]>> \o sort(RemoveAt(results, i))

\* ---------------------------------------------------------------- the node heap
EmptyMap == [c \in {} |-> NULL]

TrieNode == [children |-> EmptyMap, isEndOfWord |-> FALSE]

\* children.find(ch) != children.end()
HasKey(h, n, ch) == ch \in DOMAIN h[n].children

\* unordered_map::operator[]: the mapped value, default-inserting nullptr for a missing key
MapIndex(h, n, ch) ==
  IF HasKey(h, n, ch) THEN [heap |-> h, val |-> h[n].children[ch]]
  ELSE [heap |-> [h EXCEPT ![n].children = (ch :> NULL) @@ @], val |-> NULL]

\* the keys of a node in the order the range-for visits them
RECURSIVE KeysInOrder(_, _)
KeysInOrder(keys, bucketOrder) ==
  IF keys = {} THEN <<>>
  ELSE LET k == IF bucketOrder = "asc"
                THEN CHOOSE x \in keys : \A y \in keys : x <= y
                ELSE CHOOSE x \in keys : \A y \in keys : x >= y
       IN <<k>> \o KeysInOrder(keys \ {k}, bucketOrder)

\* ---------------------------------------------------------------- private helpers
\* insertLoop without the find: a new child is stored for every letter
RECURSIVE insertLoop_noFind(_, _, _, _)
insertLoop_noFind(h, current, cleanWord, i) ==
  IF i > Len(cleanWord) THEN [heap |-> h, current |-> current]
  ELSE LET ch == cleanWord[i]
       IN IF ~isalpha(ch) THEN insertLoop_noFind(h, current, cleanWord, i + 1)
          ELSE LET id == Cardinality(DOMAIN h)
                   h2 == [h EXCEPT ![current].children = (ch :> id) @@ @]
                           @@ (id :> TrieNode)
               IN insertLoop_noFind(h2, id, cleanWord, i + 1)

\* the loop of insert: skip a character that is not a letter, create the
\* missing child, step to the child
RECURSIVE insertLoop(_, _, _, _)
insertLoop(h, current, cleanWord, i) ==
  IF i > Len(cleanWord) THEN [heap |-> h, current |-> current]
  ELSE LET ch == cleanWord[i]
       IN IF ~isalpha(ch) THEN insertLoop(h, current, cleanWord, i + 1)
          ELSE IF ~HasKey(h, current, ch)
               THEN LET id == Cardinality(DOMAIN h)
                        h2 == [h EXCEPT ![current].children = (ch :> id) @@ @]
                                @@ (id :> TrieNode)
                    IN insertLoop(h2, id, cleanWord, i + 1)
               ELSE insertLoop(h, h[current].children[ch], cleanWord, i + 1)

\* searchLoop without the find: operator[] alone decides whether the edge exists
RECURSIVE searchLoop_noFind(_, _, _, _)
searchLoop_noFind(h, current, prefix, i) ==
  IF i > Len(prefix) THEN [heap |-> h, node |-> current]
  ELSE LET r == MapIndex(h, current, prefix[i])
       IN IF r.val = NULL THEN [heap |-> r.heap, node |-> NULL]
          ELSE searchLoop_noFind(r.heap, r.val, prefix, i + 1)

\* the loop of searchPrefix; it runs on a non-const TrieNode*, so the heap it
\* leaves is part of its result
RECURSIVE searchLoop(_, _, _, _)
searchLoop(h, current, prefix, i) ==
  IF i > Len(prefix) THEN [heap |-> h, node |-> current]
  ELSE IF ~HasKey(h, current, prefix[i]) THEN [heap |-> h, node |-> NULL]
       ELSE LET r == MapIndex(h, current, prefix[i])
            IN searchLoop(r.heap, r.val, prefix, i + 1)

searchPrefix(h, prefix) == searchLoop(h, root, prefix, 1)

\* results is the vector passed by reference; the value is the vector afterwards
RECURSIVE collectSuggestions(_, _, _, _, _)
RECURSIVE collectLoop(_, _, _, _, _, _)
collectSuggestions(h, node, currentPrefix, results, bucketOrder) ==
  LET pushed == IF h[node].isEndOfWord THEN Append(results, currentPrefix)
                ELSE results
  IN collectLoop(h, node, KeysInOrder(DOMAIN h[node].children, bucketOrder),
                 currentPrefix, pushed, bucketOrder)

collectLoop(h, node, keys, currentPrefix, results, bucketOrder) ==
  IF keys = <<>> THEN results
  ELSE LET key == Head(keys)
           child == h[node].children[key]
       IN collectLoop(h, node, Tail(keys), currentPrefix,
                      collectSuggestions(h, child, Append(currentPrefix, key),
                                         results, bucketOrder),
                      bucketOrder)

\* getSuggestions collecting from the prefix node with an empty currentPrefix
getSuggestionsRun_dropPrefix(h, prefix, bucketOrder) ==
  LET cleanPrefix == toLower(trim(prefix))
      found == IF cleanPrefix = <<>> THEN [heap |-> h, node |-> root]
               ELSE searchPrefix(h, cleanPrefix)
  IN IF found.node = NULL THEN [heap |-> found.heap, results |-> <<>>]
     ELSE [heap |-> found.heap,
           results |-> sort(collectSuggestions(found.heap, found.node, <<>>,
                                               <<>>, bucketOrder))]

\* the body of getSuggestions: the heap it leaves and the vector it returns
getSuggestionsRun(h, prefix, bucketOrder) ==
  LET cleanPrefix == toLower(trim(prefix))
      found == IF cleanPrefix = <<>> THEN [heap |-> h, node |-> root]
               ELSE searchPrefix(h, cleanPrefix)
  IN IF found.node = NULL THEN [heap |-> found.heap, results |-> <<>>]
     ELSE [heap |-> found.heap,
           results |-> sort(collectSuggestions(found.heap, found.node, cleanPrefix,
                                               <<>>, bucketOrder))]

\* ---------------------------------------------------------------- the public operations
Construct ==
  /\ root = 0
  /\ nodes = (0 :> TrieNode)
  /\ wordCount = 0
  /\ call = [op |-> "Trie"]
  /\ inserted = {}
  /\ seen = FALSE

Init == Construct /\ dict \in {"bounded", "scenario"}

InitHist == Construct /\ dict = "hist"

\* insert counting every call that reaches the end of the word
insert_alwaysCount(word) ==
  LET cleanWord == toLower(trim(word))
  IN /\ IF cleanWord = <<>> THEN UNCHANGED <<nodes, wordCount>>
        ELSE LET r == insertLoop(nodes, root, cleanWord, 1)
             IN /\ nodes' = [r.heap EXCEPT ![r.current].isEndOfWord = TRUE]
                /\ wordCount' = wordCount + 1
     /\ call' = [op |-> "insert", arg |-> word]
     /\ UNCHANGED root

insert(word) ==
  LET cleanWord == toLower(trim(word))
  IN /\ IF cleanWord = <<>> THEN UNCHANGED <<nodes, wordCount>>
        ELSE LET r == insertLoop(nodes, root, cleanWord, 1)
             IN IF ~r.heap[r.current].isEndOfWord
                THEN /\ nodes' = [r.heap EXCEPT ![r.current].isEndOfWord = TRUE]
                     /\ wordCount' = wordCount + 1
                ELSE /\ nodes' = r.heap
                     /\ wordCount' = wordCount
     /\ call' = [op |-> "insert", arg |-> word]
     /\ UNCHANGED root

getSuggestions(prefix, bucketOrder) ==
  LET r == getSuggestionsRun(nodes, prefix, bucketOrder)
  IN /\ nodes' = r.heap
     /\ call' = [op |-> "getSuggestions", arg |-> prefix, ret |-> r.results]
     /\ UNCHANGED <<root, wordCount>>

getWordCount ==
  /\ call' = [op |-> "getWordCount", ret |-> wordCount]
  /\ UNCHANGED <<root, nodes, wordCount>>

\* cleanWord / cleanPrefix of a text
Normal(text) == toLower(trim(text))

\* The caller: any operation at any time. The bounded dictionary stops
\* inserting at MaxWords stored words; the scenario has five words to insert.
Next ==
  \/ \E word \in Words(dict) :
       /\ dict = "scenario" \/ wordCount < MaxWords
       /\ insert(word)
       /\ UNCHANGED hist
  \/ \E prefix \in Prefixes(dict), bucketOrder \in BucketOrders :
       getSuggestions(prefix, bucketOrder) /\ UNCHANGED hist
  \/ getWordCount /\ UNCHANGED hist

Spec == Init /\ [][Next]_vars

\* The same operations with the history of the insert calls recorded.
HistInsert(word) ==
  /\ word \in inserted \/ Cardinality(inserted) < MaxInserts
  /\ insert(word)
  /\ inserted' = inserted \cup {word}
  /\ seen' = (\E w \in inserted : Normal(w) = Normal(word))
  /\ UNCHANGED dict

HistGetSuggestions(prefix, bucketOrder) ==
  getSuggestions(prefix, bucketOrder) /\ seen' = FALSE /\ UNCHANGED <<dict, inserted>>

HistGetWordCount == getWordCount /\ seen' = FALSE /\ UNCHANGED <<dict, inserted>>

NextHist ==
  \/ \E word \in Words(dict) : HistInsert(word)
  \/ \E prefix \in Prefixes(dict), bucketOrder \in BucketOrders :
       HistGetSuggestions(prefix, bucketOrder)
  \/ HistGetWordCount

SpecHist == InitHist /\ [][NextHist]_vars

\* ---------------------------------------------------------------- what the tree holds
Range(s) == {s[i] : i \in 1..Len(s)}

IsPrefix(p, w) == Len(p) <= Len(w) /\ \A i \in 1..Len(p) : w[i] = p[i]

\* every [path, node] with the node reached from the root along the edges spelling
\* path, level by level
RECURSIVE Reach(_, _)
Reach(frontier, acc) ==
  IF frontier = {} THEN acc
  ELSE Reach(UNION { { [path |-> Append(f.path, c), node |-> nodes[f.node].children[c]] :
                       c \in DOMAIN nodes[f.node].children } : f \in frontier },
             acc \cup frontier)

Tree == Reach({[path |-> <<>>, node |-> root]}, {})

TreeNodes == {f.node : f \in Tree}

\* the strings spelled by the root-to-terminal paths
StoredWords == {f.path : f \in {g \in Tree : nodes[g.node].isEndOfWord}}

\* ---------------------------------------------------------------- claims
ScenarioLoaded == dict = "scenario" /\ StoredWords = ScenarioWords

ScenarioAnswer(prefix) ==
  IF prefix = <<97, 112>>
  THEN << <<97, 112, 112>>, <<97, 112, 112, 108, 101>>, <<97, 112, 112, 108, 121>>,
          <<97, 112, 114, 105, 99, 111, 116>> >>
  ELSE IF prefix = <<98>> THEN << <<98, 97, 110, 97, 110, 97>> >>
  ELSE <<>>

\* C1: getSuggestions(P) returns exactly the words stored in the tree (the
\* strings spelled by the root-to-terminal paths) that start with
\* lowercase(trim(P)); with apple, app, apply, apricot, banana stored, "ap"
\* gives [app, apple, apply, apricot], "b" gives [banana], "z" gives [].
C1_SuggestionsAreStoredWordsWithPrefix ==
  call.op = "getSuggestions" =>
    /\ Range(call.ret) = {w \in StoredWords : IsPrefix(Normal(call.arg), w)}
    /\ ScenarioLoaded => call.ret = ScenarioAnswer(call.arg)

C1_Witness ==
  /\ ScenarioLoaded
  /\ call.op = "getSuggestions"
  /\ call.arg = <<97, 112>>
  /\ Len(call.ret) = 4

\* C2: a text W passed to insert whose normalised form is not empty is
\* suggested: a later getSuggestions(W) contains lowercase(trim(W)).
C2_InsertedWordIsSuggested ==
  (call.op = "getSuggestions" /\ call.arg \in inserted /\ Normal(call.arg) # <<>>)
    => Normal(call.arg) \in Range(call.ret)

\* the order of the strings, by first difference
RECURSIVE LexLeq(_, _)
LexLeq(a, b) ==
  IF a = <<>> THEN TRUE
  ELSE IF b = <<>> THEN FALSE
  ELSE IF Head(a) # Head(b) THEN Head(a) < Head(b)
  ELSE LexLeq(Tail(a), Tail(b))

\* C3: the sequence getSuggestions returns is in non-decreasing lexicographic
\* order and holds no string twice.
C3_SuggestionsSortedDistinct ==
  call.op = "getSuggestions" =>
    /\ \A i \in 1..(Len(call.ret) - 1) : LexLeq(call.ret[i], call.ret[i + 1])
    /\ \A i, j \in 1..Len(call.ret) : call.ret[i] = call.ret[j] => i = j

C3_Witness ==
  /\ call.op = "getSuggestions"
  /\ Len(call.ret) >= 2
  /\ dict = "bounded"

\* C4: getSuggestions("") returns exactly the normalised forms of the words
\* ever passed to insert: each of them is returned (read here for the forms
\* that are not empty), and each string returned is the normalised form of a
\* word passed to insert.
C4_EmptyPrefixReturnsInsertedWords ==
  (call.op = "getSuggestions" /\ Normal(call.arg) = <<>>) =>
    /\ \A w \in inserted : Normal(w) # <<>> => Normal(w) \in Range(call.ret)
    /\ \A r \in Range(call.ret) : \E w \in inserted : Normal(w) = r

\* C5: an insert of a word whose normalised form was passed to insert before
\* does not increment wordCount.
C5_RepeatedInsertKeepsCount ==
  [][(call'.op = "insert" /\ \E w \in inserted : Normal(w) = Normal(call'.arg))
       => wordCount' = wordCount]_vars

C5_Witness ==
  /\ call.op = "insert"
  /\ seen
  /\ \E i \in 1..Len(call.arg) : isalpha(call.arg[i])
  /\ Cardinality(inserted) >= 2
  /\ wordCount = 1

\* C6: if W was passed to insert and lowercase(trim(P)) is a prefix of
\* lowercase(trim(W)), then getSuggestions(P) contains lowercase(trim(W))
\* (read here for the W whose normalised form is not empty).
C6_CaseAndWhitespaceInsensitive ==
  call.op = "getSuggestions" =>
    \A w \in inserted :
      (Normal(w) # <<>> /\ IsPrefix(Normal(call.arg), Normal(w)))
        => Normal(w) \in Range(call.ret)

\* C7: wordCount is the number of nodes of the tree whose isEndOfWord is set.
C7_WordCountIsTerminalCount ==
  wordCount = Cardinality({n \in TreeNodes : nodes[n].isEndOfWord})

C7_Witness ==
  /\ call.op = "insert"
  /\ wordCount = 2
  /\ Cardinality(TreeNodes) > 3

\* C8: the root node is never marked terminal.
C8_RootNeverTerminal == ~nodes[root].isEndOfWord

\* C9: getSuggestions and getWordCount leave the nodes, their child mappings,
\* their terminal flags and wordCount as they were.
C9_ReadsChangeNothing ==
  [][call'.op \in {"getSuggestions", "getWordCount"}
       => (nodes' = nodes /\ wordCount' = wordCount /\ root' = root)]_vars

C9_Witness ==
  /\ call.op = "getSuggestions"
  /\ Normal(call.arg) # <<>>
  /\ call.ret = <<>>
  /\ wordCount >= 1

\* what getSuggestions("") returns on the heap h
AllWords(h, bucketOrder) == Range(getSuggestionsRun(h, <<>>, bucketOrder).results)

\* C10: wordCount never decreases, no node or edge is removed, no terminal
\* flag is cleared, and a word getSuggestions("") returns is returned by every
\* later getSuggestions("").
C10_ContentOnlyGrows ==
  [][/\ wordCount' >= wordCount
     /\ \/ nodes' = nodes
        \/ /\ \A n \in DOMAIN nodes :
                /\ n \in DOMAIN nodes'
                /\ nodes[n].isEndOfWord => nodes'[n].isEndOfWord
                /\ \A c \in DOMAIN nodes[n].children :
                     /\ c \in DOMAIN nodes'[n].children
                     /\ nodes'[n].children[c] = nodes[n].children[c]
           /\ \A o \in BucketOrders : AllWords(nodes, o) \subseteq AllWords(nodes', o)]_vars

C10_Witness ==
  /\ call.op = "getSuggestions"
  /\ Normal(call.arg) = <<>>
  /\ Len(call.ret) = 2
  /\ dict = "bounded"

====
